---- MODULE Spec2Model ----
(***************************************************************************)
(* A model of src/src/app/app.component.ts (AppComponent of "Clicker").    *)
(*                                                                         *)
(* Conventions.                                                            *)
(*  - A string the code inspects character by character (a topic name, the *)
(*    text typed into the add-topic input) is a sequence of one-character  *)
(*    strings, so that trim() and substring(0, 1) are computed.            *)
(*  - A topic id (Date.now().toString() + Math.random()) is an opaque      *)
(*    token that is only ever compared for equality.  Math.random() is     *)
(*    modelled as returning a value that no id already carries; the token  *)
(*    is the least natural number that no id still held once the handler   *)
(*    has run (in memory or in the slot) carries, which names the same     *)
(*    state up to a renaming of the tokens.                                *)
(*  - The clock `now` counts ticks of TICK_MS milliseconds; Date.now() is   *)
(*    now * TICK_MS.  A handler runs to completion at one clock value.     *)
(*  - localStorage's slot "eventCounterData" is the variable `storage`: a  *)
(*    record describing the text the slot holds (see JSONstringify).       *)
(*  - setTimeout callbacks are the queue `timers` of due times; the        *)
(*    browser runs them in due order, never before they are due, and a     *)
(*    page reload drops them.                                              *)
(***************************************************************************)
EXTENDS Integers, Sequences, FiniteSets, TLC

VARIABLES
    topics,                 \* this.topics
    timeline,               \* this.timeline
    newTopicName,           \* this.newTopicName
    capacityReachedAlert,   \* this.capacityReachedAlert
    colorIndex,             \* this.colorIndex
    showAddTopicModal,      \* this.showAddTopicModal (addTopic closes the modal; the handlers
                            \* that open and close it by hand are not modelled)
    pieChartData,           \* this.pieChartData (labels, data, backgroundColor)
    lineChartData,          \* this.lineChartData (labels, data, colours)
    storage,                \* localStorage slot "eventCounterData"
    now,                    \* the clock, in ticks
    timers,                 \* pending setTimeout callbacks of incrementTopic (due times, ms)
    phase,                  \* "constructed" (before ngOnInit) or "running"
    lastOp,                 \* history: the handler that ran last, with its input and outcome
    alertSince,             \* history: Date.now() of the rejected increment that raised
                            \* the alert now visible, -1 when no alert is visible
    contrast                \* the last call of getContrastColor: its argument and result

vars == <<topics, timeline, newTopicName, capacityReachedAlert, colorIndex,
          showAddTopicModal, pieChartData, lineChartData, storage, now, timers,
          phase, lastOp, alertSince, contrast>>

----------------------------------------------------------------------------
(* Bounds of the model *)

\* MAX_EVENTS is 2000 in the source (line 37); the model scales the capacity
\* down so that a full event log is reachable.
MAX_EVENTS == 2

\* Largest topic list the add-topic handler is exercised on under Spec.
MaxTopics == 3

\* Largest topic list under SpecPalette (a whole turn of the 12-colour palette).
MaxPaletteTopics == 13

\* Last clock value (ticks).
MaxNow == 3

\* Clock ticks in one alert timeout: the clock's resolution.
TicksPerTimeout == 2

\* Most setTimeout callbacks pending at once.
MaxTimers == 2

----------------------------------------------------------------------------
(* Program constants *)

\* The delay of incrementTopic's setTimeout, in ms.
ALERT_TIMEOUT_MS == 5000

DEFAULT_COLORS ==
    << "#27AE60", "#E74C3C", "#3498DB", "#F39C12", "#9B59B6", "#1ABC9C",
       "#34495E", "#E67E22", "#16A085", "#8E44AD", "#2980B9", "#C0392B" >>

\* DEFAULT_COLORS[i] with the source's 0-based index.
DefaultColor(i) == DEFAULT_COLORS[i + 1]

STR_PASS == << "P", "a", "s", "s" >>
STR_FAIL == << "F", "a", "i", "l" >>

----------------------------------------------------------------------------
(* Strings *)

\* The characters String.prototype.trim() strips (those the model types).
WHITESPACE == { " ", "\t" }

RECURSIVE TrimStart(_)
TrimStart(s) ==
    IF s # << >> /\ Head(s) \in WHITESPACE THEN TrimStart(Tail(s)) ELSE s

RECURSIVE TrimEnd(_)
TrimEnd(s) ==
    IF s # << >> /\ s[Len(s)] \in WHITESPACE
    THEN TrimEnd(SubSeq(s, 1, Len(s) - 1))
    ELSE s

\* A plausible slip: the name is used as typed.
Trim_none(s) == s

\* String.prototype.trim()
Trim(s) == TrimEnd(TrimStart(s))

\* A JavaScript string used as a condition: the empty string is falsy.
Truthy(s) == s # << >>

\* name.substring(0, 1) as a one-character string ("" for the empty name)
FirstChar(s) == IF s = << >> THEN "" ELSE s[1]

----------------------------------------------------------------------------
(* Clock *)

\* The milliseconds in one tick of the clock
TICK_MS == ALERT_TIMEOUT_MS \div TicksPerTimeout

\* Date.now()
DateNow == now * TICK_MS

\* new Date(ms).toISOString(), as the fields the text is made of
ToISOString(ms) ==
    [ day    |-> ms \div 86400000,
      hour   |-> (ms \div 3600000) % 24,
      minute |-> (ms \div 60000) % 60,
      second |-> (ms \div 1000) % 60,
      milli  |-> ms % 1000 ]

----------------------------------------------------------------------------
(* Topic ids *)

\* The ids held by a topic list, an event list, and a slot's text
TopicIds(ts) == { ts[i].id : i \in DOMAIN ts }
EventIds(tl) == { tl[i].topicId : i \in DOMAIN tl }
SlotIds(slot) ==
    { slot.topics[i][1] : i \in DOMAIN slot.topics }
        \cup { slot.timeline[i][1] : i \in DOMAIN slot.timeline }

\* A plausible slip: the random part is missing and the id is the clock's value,
\* the same for two topics made at one clock value.
FreshId_clockOnly(used) == now

\* Date.now().toString() + Math.random(): a token not in `used`
FreshId(used) ==
    CHOOSE n \in 0..Cardinality(used) :
        /\ n \notin used
        /\ \A m \in 0..Cardinality(used) : m \notin used => n <= m

----------------------------------------------------------------------------
(* The persisted slot: JSON.stringify and JSON.parse *)

\* The slot's text is described by a record:
\*   kind        "absent"  getItem returns null
\*               "empty"   the empty string
\*               "garbage" text JSON.parse rejects
\*               "null"    the JSON text null
\*               "json"    the text of a JSON object
\*   hasTopics, hasTimeline   whether the object has the member
\*   topics, timeline         the members' arrays; an element is the tuple of
\*                            its members' values in the order they are written
NoSlot ==
    [ kind |-> "absent", hasTopics |-> FALSE, hasTimeline |-> FALSE,
      topics |-> << >>, timeline |-> << >> ]

\* A plausible slip: the count is not written.
TopicToJSON_noCount(t) == << t.id, t.name, t.color, 0 >>

\* JSON text of one Topic: members id, name, color, count
TopicToJSON(t) == << t.id, t.name, t.color, t.count >>

\* JSON text of one TimelineEvent: members topicId, topicName, timestamp, isoDatestamp
EventToJSON(e) == << e.topicId, e.topicName, e.timestamp, e.isoDatestamp >>

TopicFromJSON(j) == [ id |-> j[1], name |-> j[2], color |-> j[3], count |-> j[4] ]

EventFromJSON(j) ==
    [ topicId |-> j[1], topicName |-> j[2], timestamp |-> j[3], isoDatestamp |-> j[4] ]

\* JSON.stringify({topics, timeline})
JSONstringify(ts, tl) ==
    [ kind |-> "json", hasTopics |-> TRUE, hasTimeline |-> TRUE,
      topics   |-> [ i \in DOMAIN ts |-> TopicToJSON(ts[i]) ],
      timeline |-> [ i \in DOMAIN tl |-> EventToJSON(tl[i]) ] ]

\* A plausible slip: the slot is written from the state before the mutation.
SaveToStorage_stale(ts, tl) == JSONstringify(topics, timeline)

\* saveToStorage(): the slot's new content
SaveToStorage(ts, tl) == JSONstringify(ts, tl)

\* loadFromStorage() on a component holding curTopics and curTimeline:
\* the topics and timeline it leaves.  A missing slot or an empty text is
\* skipped; a text JSON.parse rejects, or the text null (whose .topics
\* throws), ends in the catch; a missing member reads as [].
LoadFromStorage(slot, curTopics, curTimeline) ==
    IF slot.kind = "json"
    THEN [ topics   |-> IF slot.hasTopics
                        THEN [ i \in DOMAIN slot.topics |-> TopicFromJSON(slot.topics[i]) ]
                        ELSE << >>,
           timeline |-> IF slot.hasTimeline
                        THEN [ i \in DOMAIN slot.timeline |-> EventFromJSON(slot.timeline[i]) ]
                        ELSE << >> ]
    ELSE [ topics |-> curTopics, timeline |-> curTimeline ]

----------------------------------------------------------------------------
(* Topics *)

\* DEFAULT_COLORS[(this.colorIndex + 2) % DEFAULT_COLORS.length]
NextColor(ci) == DefaultColor((ci + 2) % Len(DEFAULT_COLORS))

\* addTopicWithColor(name, color) on the list ts; `used` are the ids in use
AddTopicWithColor(ts, name, color, used) ==
    Append(ts, [ id    |-> FreshId(used \cup TopicIds(ts)),
                 name  |-> name,
                 color |-> color,
                 count |-> 0 ])

\* A plausible slip: the defaults are seeded in the other order.
InitializeDefaultTopics_swapped(ts, used) ==
    AddTopicWithColor(AddTopicWithColor(ts, STR_FAIL, DefaultColor(1), used),
                      STR_PASS, DefaultColor(0), used)

\* initializeDefaultTopics()
InitializeDefaultTopics(ts, used) ==
    AddTopicWithColor(AddTopicWithColor(ts, STR_PASS, DefaultColor(0), used),
                      STR_FAIL, DefaultColor(1), used)

\* addTopicWithoutStorage(name): the list it leaves (colorIndex++ is in AddTopic)
AddTopicWithoutStorage(ts, ci, name, used) ==
    Append(ts, [ id    |-> FreshId(used \cup TopicIds(ts)),
                 name  |-> name,
                 color |-> NextColor(ci),
                 count |-> 0 ])

\* A plausible slip: an id that matches nothing falls back to the first topic.
FindTopic_orFirst(ts, topicId) ==
    IF \E i \in DOMAIN ts : ts[i].id = topicId
    THEN CHOOSE i \in DOMAIN ts :
            /\ ts[i].id = topicId
            /\ \A j \in DOMAIN ts : ts[j].id = topicId => i <= j
    ELSE IF ts = << >> THEN 0 ELSE 1

\* this.topics.find(t => t.id === topicId): the position of the first match, 0 for none
FindTopic(ts, topicId) ==
    IF \E i \in DOMAIN ts : ts[i].id = topicId
    THEN CHOOSE i \in DOMAIN ts :
            /\ ts[i].id = topicId
            /\ \A j \in DOMAIN ts : ts[j].id = topicId => i <= j
    ELSE 0

\* this.topics.filter(t => t.name === name)[0]: its position, 0 when the filter is empty
FirstNamed(ts, name) ==
    IF \E i \in DOMAIN ts : ts[i].name = name
    THEN CHOOSE i \in DOMAIN ts :
            /\ ts[i].name = name
            /\ \A j \in DOMAIN ts : ts[j].name = name => i <= j
    ELSE 0

\* A plausible slip: every topic named "Pass" or "Fail" is recoloured (a forEach
\* over the filter's result instead of its element 0).
RePin_everyMatch(ts) ==
    [ i \in DOMAIN ts |->
        IF ts[i].name = STR_PASS THEN [ ts[i] EXCEPT !.color = DefaultColor(0) ]
        ELSE IF ts[i].name = STR_FAIL THEN [ ts[i] EXCEPT !.color = DefaultColor(1) ]
        ELSE ts[i] ]

\* ngOnInit's else branch: the first "Pass" and the first "Fail" get their colours back
RePin(ts) ==
    LET p == FirstNamed(ts, STR_PASS)
        f == FirstNamed(ts, STR_FAIL)
        a == IF p > 0 THEN [ ts EXCEPT ![p].color = DefaultColor(0) ] ELSE ts
    IN  IF f > 0 THEN [ a EXCEPT ![f].color = DefaultColor(1) ] ELSE a

\* A plausible slip: the capacity test is off by one.
AtCapacity_offByOne(tl) == Len(tl) > MAX_EVENTS

\* this.timeline.length >= MAX_EVENTS
AtCapacity(tl) == Len(tl) >= MAX_EVENTS

\* A plausible slip: the clear rebuilds the list as the reset does.
ClearCounts_asReset(ts) == InitializeDefaultTopics(<< >>, {})

\* A plausible slip: the counts survive a clear.
ClearCounts_keep(ts) == ts

\* this.topics.forEach(topic => { topic.count = 0; })
ClearCounts(ts) == [ i \in DOMAIN ts |-> [ ts[i] EXCEPT !.count = 0 ] ]

\* A plausible slip: the event is put in front (unshift) instead of at the end.
Push_front(tl, event) == << event >> \o tl

\* this.timeline.push(event)
Push(tl, event) == Append(tl, event)

\* The TimelineEvent incrementTopic builds for `topic`
NewEvent(topic) ==
    [ topicId      |-> topic.id,
      topicName    |-> topic.name,
      timestamp    |-> DateNow,
      isoDatestamp |-> ToISOString(DateNow) ]

----------------------------------------------------------------------------
(* View projections *)

\* [...s].reverse()
Reverse(s) == [ i \in 1..Len(s) |-> s[Len(s) + 1 - i] ]

\* A plausible slip: the counts are taken from the list as it is, not reversed.
UpdatePieChart_dataInListOrder(ts) ==
    LET reversedTopics == Reverse(ts)
    IN  [ labels          |-> [ i \in DOMAIN reversedTopics |-> reversedTopics[i].name ],
          data            |-> [ i \in DOMAIN ts |-> ts[i].count ],
          backgroundColor |-> [ i \in DOMAIN reversedTopics |-> reversedTopics[i].color ] ]

\* updatePieChart(): labels, data and backgroundColor of the pie
UpdatePieChart(ts) ==
    LET reversedTopics == Reverse(ts)
    IN  [ labels          |-> [ i \in DOMAIN reversedTopics |-> reversedTopics[i].name ],
          data            |-> [ i \in DOMAIN reversedTopics |-> reversedTopics[i].count ],
          backgroundColor |-> [ i \in DOMAIN reversedTopics |-> reversedTopics[i].color ] ]

\* topic?.name.substring(0, 1) || 'E' for an event
EventLabel(ts, e) ==
    LET k == FindTopic(ts, e.topicId)
    IN  IF k = 0 \/ FirstChar(ts[k].name) = "" THEN "E" ELSE FirstChar(ts[k].name)

\* topic?.color || '#999999' for an event
EventColor(ts, e) ==
    LET k == FindTopic(ts, e.topicId)
    IN  IF k = 0 \/ ts[k].color = "" THEN "#999999" ELSE ts[k].color

\* updateLineChart(): one unit segment per event
UpdateLineChart(ts, tl) ==
    [ labels          |-> [ i \in DOMAIN tl |-> EventLabel(ts, tl[i]) ],
      data            |-> [ i \in DOMAIN tl |-> 1 ],
      backgroundColor |-> [ i \in DOMAIN tl |-> EventColor(ts, tl[i]) ],
      borderColor     |-> [ i \in DOMAIN tl |-> EventColor(ts, tl[i]) ] ]

EmptyPie == [ labels |-> << >>, data |-> << >>, backgroundColor |-> << >> ]

EmptyLine ==
    [ labels |-> << >>, data |-> << >>, backgroundColor |-> << >>, borderColor |-> << >> ]

----------------------------------------------------------------------------
(* CSV export.  exportData() reads topics and timeline and changes nothing of
   the component: the two documents it hands to the browser are functions of
   the state, each the text the code concatenates, one character at a time *)

DIGITS == << "0", "1", "2", "3", "4", "5", "6", "7", "8", "9" >>

\* The decimal notation of a natural number, as `${n}` writes it
RECURSIVE NumberToString(_)
NumberToString(n) ==
    IF n < 10 THEN << DIGITS[n + 1] >>
    ELSE NumberToString(n \div 10) \o << DIGITS[(n % 10) + 1] >>

\* The decimal notation of n, zero-padded to `width` digits
RECURSIVE PadStart(_, _)
PadStart(n, width) ==
    IF width = 0 THEN << >>
    ELSE PadStart(n \div 10, width - 1) \o << DIGITS[(n % 10) + 1] >>

\* The calendar date (UTC, proleptic Gregorian) of a day counted from 1970-01-01
CivilFromDays(day) ==
    LET z   == day + 719468
        era == z \div 146097
        doe == z - era * 146097
        yoe == (doe - (doe \div 1460) + (doe \div 36524) - (doe \div 146096)) \div 365
        doy == doe - (365 * yoe + (yoe \div 4) - (yoe \div 100))
        mp  == (5 * doy + 2) \div 153
        d   == doy - ((153 * mp + 2) \div 5) + 1
        m   == IF mp < 10 THEN mp + 3 ELSE mp - 9
        y   == yoe + era * 400 + (IF m <= 2 THEN 1 ELSE 0)
    IN  [ year |-> y, month |-> m, date |-> d ]

\* The text of an isoDatestamp: YYYY-MM-DDTHH:mm:ss.sssZ
ISOText(iso) ==
    LET c == CivilFromDays(iso.day)
    IN  PadStart(c.year, 4) \o << "-" >> \o PadStart(c.month, 2) \o << "-" >>
        \o PadStart(c.date, 2) \o << "T" >> \o PadStart(iso.hour, 2) \o << ":" >>
        \o PadStart(iso.minute, 2) \o << ":" >> \o PadStart(iso.second, 2) \o << "." >>
        \o PadStart(iso.milli, 3) \o << "Z" >>

\* 'Topic,Count\n'
TOTALS_HEADER ==
    << "T", "o", "p", "i", "c", ",", "C", "o", "u", "n", "t", "\n" >>

\* 'Topic,Timestamp (Epoch),Timestamp (ISO)\n'
EVENTS_HEADER ==
    << "T", "o", "p", "i", "c", ",",
       "T", "i", "m", "e", "s", "t", "a", "m", "p", " ", "(", "E", "p", "o", "c", "h", ")", ",",
       "T", "i", "m", "e", "s", "t", "a", "m", "p", " ", "(", "I", "S", "O", ")", "\n" >>

\* `"${topic.name}",${topic.count}\n`
TotalsRow(topic) ==
    << "\"" >> \o topic.name \o << "\"", "," >> \o NumberToString(topic.count) \o << "\n" >>

\* `"${event.topicName}",${event.timestamp},"${event.isoDatestamp}"\n`
EventsRow(event) ==
    << "\"" >> \o event.topicName \o << "\"", "," >> \o NumberToString(event.timestamp)
        \o << ",", "\"" >> \o ISOText(event.isoDatestamp) \o << "\"", "\n" >>

\* csv after forEach has appended the rows of items 1..k to it
RECURSIVE ForEachTotals(_, _, _)
ForEachTotals(csv, ts, k) ==
    IF k = 0 THEN csv ELSE ForEachTotals(csv, ts, k - 1) \o TotalsRow(ts[k])

RECURSIVE ForEachEvents(_, _, _)
ForEachEvents(csv, tl, k) ==
    IF k = 0 THEN csv ELSE ForEachEvents(csv, tl, k - 1) \o EventsRow(tl[k])

\* A plausible slip: the totals are written in the pie chart's (reversed) order.
GenerateTotalsCSV_reversed(ts) == ForEachTotals(TOTALS_HEADER, Reverse(ts), Len(ts))

\* generateTotalsCSV()
GenerateTotalsCSV(ts) == ForEachTotals(TOTALS_HEADER, ts, Len(ts))

\* generateEventsCSV()
GenerateEventsCSV(tl) == ForEachEvents(EVENTS_HEADER, tl, Len(tl))

----------------------------------------------------------------------------
(* getContrastColor: a colour is the text of its "#RRGGBB" notation, a
   sequence of one-character strings; brightness is the exact quotient the
   floating-point division yields, kept as numerator and denominator *)

HEX_UPPER == << "0", "1", "2", "3", "4", "5", "6", "7",
                "8", "9", "A", "B", "C", "D", "E", "F" >>
HEX_LOWER == << "0", "1", "2", "3", "4", "5", "6", "7",
                "8", "9", "a", "b", "c", "d", "e", "f" >>

\* hexColor.replace('#', ''): the first '#' of the text is removed
RemoveHash(s) ==
    IF \E i \in DOMAIN s : s[i] = "#"
    THEN LET k == CHOOSE i \in DOMAIN s :
                      s[i] = "#" /\ \A j \in 1..(i - 1) : s[j] # "#"
         IN  SubSeq(s, 1, k - 1) \o SubSeq(s, k + 1, Len(s))
    ELSE s

\* s.substr(start, length), start counted from 0
Substr(s, start, length) ==
    SubSeq(s, start + 1, IF start + length > Len(s) THEN Len(s) ELSE start + length)

\* The value of one hexadecimal digit, of either case
HexDigitValue(c) ==
    CHOOSE v \in 0..15 : HEX_UPPER[v + 1] = c \/ HEX_LOWER[v + 1] = c

\* parseInt(s, 16) of a text of hexadecimal digits
RECURSIVE ParseInt16(_)
ParseInt16(s) ==
    IF s = << >> THEN 0
    ELSE 16 * ParseInt16(SubSeq(s, 1, Len(s) - 1)) + HexDigitValue(s[Len(s)])

\* A plausible slip: the division is an integer division.
Brightness_truncated(r, g, b) ==
    [ num |-> (r * 299 + g * 587 + b * 114) \div 1000, den |-> 1 ]

\* (r * 299 + g * 587 + b * 114) / 1000
Brightness(r, g, b) ==
    [ num |-> r * 299 + g * 587 + b * 114, den |-> 1000 ]

\* q > n, for a quotient q and an integer n
Exceeds(q, n) == q.num > n * q.den

\* getContrastColor(hexColor)
GetContrastColor(hexColor) ==
    LET hex == RemoveHash(hexColor)
        r == ParseInt16(Substr(hex, 0, 2))
        g == ParseInt16(Substr(hex, 2, 2))
        b == ParseInt16(Substr(hex, 4, 2))
        brightness == Brightness(r, g, b)
    IN  IF Exceeds(brightness, 155) THEN "#000000" ELSE "#FFFFFF"

\* The two-digit notation of a channel value, in upper or lower case
ToHex2(n, upper) ==
    LET digits == IF upper THEN HEX_UPPER ELSE HEX_LOWER
    IN  << digits[(n \div 16) + 1], digits[(n % 16) + 1] >>

\* The "#RRGGBB" text of the colour with channels r, g, b
HexColor(r, g, b, upper) ==
    << "#" >> \o ToHex2(r, upper) \o ToHex2(g, upper) \o ToHex2(b, upper)

\* contrast before getContrastColor was ever called
NoContrast ==
    [ called |-> FALSE, r |-> 0, g |-> 0, b |-> 0, hexColor |-> << >>, result |-> "" ]

----------------------------------------------------------------------------
(* State *)

\* lastOp: op is the handler, name the text typed into the add-topic input
\* (addTopic), id the topicId passed (incrementTopic), answer the user's reply
\* to confirm() (clearData, resetTopics), done whether the handler took its
\* mutating branch.
Op(op, name, id, answer, done) ==
    [ op |-> op, name |-> name, id |-> id, answer |-> answer, done |-> done ]

\* The field initialisers of AppComponent (lines 49-81) and constructor()
Constructed ==
    /\ topics = << >>
    /\ timeline = << >>
    /\ newTopicName = << >>
    /\ capacityReachedAlert = FALSE
    /\ colorIndex = 0
    /\ showAddTopicModal = FALSE
    /\ pieChartData = EmptyPie
    /\ lineChartData = EmptyLine

\* A freshly constructed component over an empty store
Init ==
    /\ Constructed
    /\ storage = NoSlot
    /\ now = 0
    /\ timers = << >>
    /\ phase = "constructed"
    /\ lastOp = Op("constructor", << >>, -1, FALSE, FALSE)
    /\ alertSince = -1
    /\ contrast = NoContrast

\* updateCharts()
UpdateCharts(ts, tl) ==
    /\ pieChartData' = UpdatePieChart(ts)
    /\ lineChartData' = UpdateLineChart(ts, tl)

\* A plausible slip: the confirmation's answer is ignored.
Confirm_always(answer) == TRUE

\* confirm(message): the user's answer
Confirm(answer) == answer

----------------------------------------------------------------------------
(* Handlers *)

\* ngOnInit() up to updateCharts(), on a component holding curTopics and
\* curTimeline over the slot: the topics and timeline it leaves
NgOnInitLoad(slot, curTopics, curTimeline) ==
    LET loaded == LoadFromStorage(slot, curTopics, curTimeline)
    IN  [ topics   |-> IF Len(loaded.topics) = 0
                       THEN InitializeDefaultTopics(loaded.topics,
                                SlotIds(slot) \cup EventIds(loaded.timeline))
                       ELSE RePin(loaded.topics),
          timeline |-> loaded.timeline ]

\* ngOnInit()
NgOnInit ==
    /\ phase = "constructed"
    /\ LET started == NgOnInitLoad(storage, topics, timeline)
       IN  /\ topics' = started.topics
           /\ timeline' = started.timeline
           /\ UpdateCharts(started.topics, started.timeline)
    /\ phase' = "running"
    /\ lastOp' = Op("ngOnInit", << >>, -1, FALSE, TRUE)
    /\ UNCHANGED <<newTopicName, capacityReachedAlert, colorIndex, showAddTopicModal,
                   storage, now, timers, alertSince, contrast>>

\* addTopic(), the add-topic input holding `typed` (ngModel has written it to
\* this.newTopicName).  `limit` bounds the topic list.
AddTopic(typed, limit) ==
    /\ phase = "running"
    /\ Truthy(Trim(typed)) => Len(topics) < limit
    /\ IF Truthy(Trim(typed))
       THEN LET ts == AddTopicWithoutStorage(topics, colorIndex, Trim(typed), EventIds(timeline))
            IN  /\ topics' = ts
                /\ colorIndex' = colorIndex + 1
                /\ newTopicName' = << >>
                /\ storage' = SaveToStorage(ts, timeline)
                /\ UpdateCharts(ts, timeline)
                /\ showAddTopicModal' = FALSE
       ELSE /\ newTopicName' = typed
            /\ UNCHANGED <<topics, colorIndex, storage, pieChartData, lineChartData,
                           showAddTopicModal>>
    /\ lastOp' = Op("addTopic", typed, -1, FALSE, Truthy(Trim(typed)))
    /\ UNCHANGED <<timeline, capacityReachedAlert, now, timers, phase, alertSince, contrast>>

\* incrementTopic(topicId)
IncrementTopic(topicId) ==
    /\ phase = "running"
    /\ IF AtCapacity(timeline)
       THEN /\ Len(timers) < MaxTimers
            /\ capacityReachedAlert' = TRUE
            /\ timers' = Append(timers, DateNow + ALERT_TIMEOUT_MS)
            /\ alertSince' = DateNow
            /\ lastOp' = Op("incrementTopic", << >>, topicId, FALSE, FALSE)
            /\ UNCHANGED <<topics, timeline, storage, pieChartData, lineChartData>>
       ELSE LET k == FindTopic(topics, topicId)
            IN  IF k > 0
                THEN LET ts == [ topics EXCEPT ![k].count = @ + 1 ]
                         tl == Push(timeline, NewEvent(topics[k]))
                     IN  /\ topics' = ts
                         /\ timeline' = tl
                         /\ storage' = SaveToStorage(ts, tl)
                         /\ UpdateCharts(ts, tl)
                         /\ lastOp' = Op("incrementTopic", << >>, topicId, FALSE, TRUE)
                         /\ UNCHANGED <<capacityReachedAlert, timers, alertSince>>
                ELSE /\ lastOp' = Op("incrementTopic", << >>, topicId, FALSE, FALSE)
                     /\ UNCHANGED <<topics, timeline, storage, pieChartData, lineChartData,
                                    capacityReachedAlert, timers, alertSince>>
    /\ UNCHANGED <<newTopicName, colorIndex, showAddTopicModal, now, phase, contrast>>

\* clearData(), the user answering confirm() with `answer`
ClearData(answer) ==
    /\ phase = "running"
    /\ IF Confirm(answer)
       THEN LET ts == ClearCounts(topics)
            IN  /\ topics' = ts
                /\ timeline' = << >>
                /\ storage' = SaveToStorage(ts, << >>)
                /\ UpdateCharts(ts, << >>)
       ELSE UNCHANGED <<topics, timeline, storage, pieChartData, lineChartData>>
    /\ lastOp' = Op("clearData", << >>, -1, answer, Confirm(answer))
    /\ UNCHANGED <<newTopicName, capacityReachedAlert, colorIndex, showAddTopicModal,
                   now, timers, phase, alertSince, contrast>>

\* resetTopics(), the user answering confirm() with `answer`
ResetTopics(answer) ==
    /\ phase = "running"
    /\ IF Confirm(answer)
       THEN LET ts == InitializeDefaultTopics(<< >>, {})
            IN  /\ topics' = ts
                /\ timeline' = << >>
                /\ colorIndex' = 0
                /\ storage' = SaveToStorage(ts, << >>)
                /\ UpdateCharts(ts, << >>)
       ELSE UNCHANGED <<topics, timeline, colorIndex, storage, pieChartData, lineChartData>>
    /\ lastOp' = Op("resetTopics", << >>, -1, answer, Confirm(answer))
    /\ UNCHANGED <<newTopicName, capacityReachedAlert, showAddTopicModal,
                   now, timers, phase, alertSince, contrast>>

\* dismissAlert()
DismissAlert ==
    /\ phase = "running"
    /\ capacityReachedAlert' = FALSE
    /\ alertSince' = -1
    /\ lastOp' = Op("dismissAlert", << >>, -1, FALSE, TRUE)
    /\ UNCHANGED <<topics, timeline, newTopicName, colorIndex, showAddTopicModal,
                   pieChartData, lineChartData, storage, now, timers, phase, contrast>>

\* A plausible slip: the callback leaves the flag as it is.
AlertTimeout_keepsAlert ==
    /\ phase = "running"
    /\ timers # << >>
    /\ DateNow >= Head(timers)
    /\ timers' = Tail(timers)
    /\ lastOp' = Op("alertTimeout", << >>, -1, FALSE, TRUE)
    /\ UNCHANGED <<topics, timeline, newTopicName, capacityReachedAlert, colorIndex,
                   showAddTopicModal, pieChartData, lineChartData, storage, now, phase,
                   alertSince, contrast>>

\* The callback incrementTopic hands to setTimeout (lines 190-192), run by the
\* browser once it is due
AlertTimeout ==
    /\ phase = "running"
    /\ timers # << >>
    /\ DateNow >= Head(timers)
    /\ timers' = Tail(timers)
    /\ capacityReachedAlert' = FALSE
    /\ alertSince' = -1
    /\ lastOp' = Op("alertTimeout", << >>, -1, FALSE, TRUE)
    /\ UNCHANGED <<topics, timeline, newTopicName, colorIndex, showAddTopicModal,
                   pieChartData, lineChartData, storage, now, phase, contrast>>

\* The page is reloaded: the component is constructed anew over the slot as it
\* is, and every pending callback is gone.  ngOnInit follows.
Reload ==
    /\ phase = "running"
    /\ topics' = << >>
    /\ timeline' = << >>
    /\ newTopicName' = << >>
    /\ capacityReachedAlert' = FALSE
    /\ colorIndex' = 0
    /\ showAddTopicModal' = FALSE
    /\ pieChartData' = EmptyPie
    /\ lineChartData' = EmptyLine
    /\ timers' = << >>
    /\ phase' = "constructed"
    /\ alertSince' = -1
    /\ lastOp' = Op("constructor", << >>, -1, FALSE, FALSE)
    /\ UNCHANGED <<storage, now, contrast>>

\* Time passes; a callback that is due runs before the clock moves on.
Tick ==
    /\ phase = "running"
    /\ now < MaxNow
    /\ timers # << >> => Head(timers) > DateNow
    /\ now' = now + 1
    /\ lastOp' = Op("tick", << >>, -1, FALSE, FALSE)
    /\ UNCHANGED <<topics, timeline, newTopicName, capacityReachedAlert, colorIndex,
                   showAddTopicModal, pieChartData, lineChartData, storage, timers,
                   phase, alertSince, contrast>>

----------------------------------------------------------------------------
(* Specifications *)

\* What the user types into the add-topic input
TypedNames ==
    { << >>, << " ", "\t" >>, << " ", "A", " " >>, STR_PASS }

\* The topicId a click passes, and one id no topic has
ClickedIds == TopicIds(topics) \cup { -1 }

Next ==
    \/ NgOnInit
    \/ \E typed \in TypedNames : AddTopic(typed, MaxTopics)
    \/ \E id \in ClickedIds : IncrementTopic(id)
    \/ \E answer \in BOOLEAN : ClearData(answer)
    \/ \E answer \in BOOLEAN : ResetTopics(answer)
    \/ DismissAlert
    \/ AlertTimeout
    \/ Reload
    \/ Tick

Spec == Init /\ [][Next]_vars

----------------------------------------------------------------------------
(* Startup over any content of the slot *)

\* An event of a topic that is in no topic list
OrphanEvent == EventToJSON([ topicId |-> 7, topicName |-> STR_PASS,
                             timestamp |-> 0, isoDatestamp |-> ToISOString(0) ])

SlotText(kind, hasTopics, hasTimeline, ts, tl) ==
    [ kind |-> kind, hasTopics |-> hasTopics, hasTimeline |-> hasTimeline,
      topics |-> ts, timeline |-> tl ]

\* Topic lists a slot may hold: the defaults with edited colours, and a second "Pass"
EditedTopics ==
    << TopicToJSON([ id |-> 0, name |-> STR_PASS, color |-> "#000000", count |-> 0 ]),
       TopicToJSON([ id |-> 1, name |-> STR_FAIL, color |-> "#FFFFFF", count |-> 0 ]),
       TopicToJSON([ id |-> 2, name |-> STR_PASS, color |-> "#123456", count |-> 0 ]) >>

\* The contents the slot may have when the page loads
SlotContents ==
    { NoSlot,
      SlotText("empty", FALSE, FALSE, << >>, << >>),
      SlotText("garbage", FALSE, FALSE, << >>, << >>),
      SlotText("null", FALSE, FALSE, << >>, << >>),
      SlotText("json", FALSE, FALSE, << >>, << >>),
      SlotText("json", FALSE, TRUE, << >>, << OrphanEvent >>),
      SlotText("json", TRUE, FALSE, << >>, << >>),
      SlotText("json", TRUE, TRUE, << >>, << >>),
      SlotText("json", TRUE, TRUE, << >>, << OrphanEvent >>),
      SlotText("json", TRUE, TRUE, EditedTopics, << >>) }

InitLoad ==
    /\ Constructed
    /\ storage \in SlotContents
    /\ now = 0
    /\ timers = << >>
    /\ phase = "constructed"
    /\ lastOp = Op("constructor", << >>, -1, FALSE, FALSE)
    /\ alertSince = -1
    /\ contrast = NoContrast

SpecLoad == InitLoad /\ [][Next]_vars

----------------------------------------------------------------------------
(* A whole turn of the palette: topics are only added (and the list reset or
   reloaded), so that the list can grow past DEFAULT_COLORS.length *)

NextPalette ==
    \/ NgOnInit
    \/ \E typed \in { << >>, << "A" >> } : AddTopic(typed, MaxPaletteTopics)
    \/ \E answer \in BOOLEAN : ResetTopics(answer)
    \/ Reload

SpecPalette == Init /\ [][NextPalette]_vars

----------------------------------------------------------------------------
(* The capacity alert over time.  The browser runs a callback that is due, time
   passes, and Angular calls ngOnInit on a constructed component: these three
   are weakly fair.  Nothing is assumed of the user.  The clock of the model
   stops at MaxNow, so an increment is refused only while the callback the
   refusal schedules falls due within the clock's range *)

\* incrementTopic(topicId), clicked while its callback would fall due in time
IncrementTopicInTime(topicId) ==
    /\ AtCapacity(timeline) => DateNow + ALERT_TIMEOUT_MS <= MaxNow * TICK_MS
    /\ IncrementTopic(topicId)

NextAlert ==
    \/ NgOnInit
    \/ \E typed \in TypedNames : AddTopic(typed, MaxTopics)
    \/ \E id \in ClickedIds : IncrementTopicInTime(id)
    \/ \E answer \in BOOLEAN : ClearData(answer)
    \/ \E answer \in BOOLEAN : ResetTopics(answer)
    \/ DismissAlert
    \/ AlertTimeout
    \/ Reload
    \/ Tick

SpecAlert ==
    /\ Init
    /\ [][NextAlert]_vars
    /\ WF_vars(AlertTimeout)
    /\ WF_vars(Tick)
    /\ WF_vars(NgOnInit)

----------------------------------------------------------------------------
(* getContrastColor on its own: the template calls it with a colour, and it
   reads and writes nothing of the component *)

\* Channel values: the ends of the range, the channels of DEFAULT_COLORS[0]
\* (#27AE60) and of #F5F5F5, and the values around the threshold
ChannelValues == { 0, 39, 96, 154, 155, 156, 174, 245, 255 }

\* The colours the template may pass: contrast holds the argument of a call
\* that is about to be made
ContrastInputs ==
    { [ called |-> FALSE, r |-> r, g |-> g, b |-> b,
        hexColor |-> HexColor(r, g, b, upper), result |-> "" ] :
      r \in ChannelValues, g \in ChannelValues, b \in ChannelValues, upper \in BOOLEAN }

InitContrast ==
    /\ Constructed
    /\ storage = NoSlot
    /\ now = 0
    /\ timers = << >>
    /\ phase = "constructed"
    /\ lastOp = Op("constructor", << >>, -1, FALSE, FALSE)
    /\ alertSince = -1
    /\ contrast \in ContrastInputs

\* The call getContrastColor(contrast.hexColor)
CallGetContrastColor ==
    /\ ~contrast.called
    /\ contrast' = [ contrast EXCEPT !.called = TRUE,
                                     !.result = GetContrastColor(contrast.hexColor) ]
    /\ UNCHANGED <<topics, timeline, newTopicName, capacityReachedAlert, colorIndex,
                   showAddTopicModal, pieChartData, lineChartData, storage, now,
                   timers, phase, lastOp, alertSince>>

NextContrast == CallGetContrastColor

SpecContrast == InitContrast /\ [][NextContrast]_vars

----------------------------------------------------------------------------
(* Vocabulary of the claims *)

\* The number of timeline events whose topicId is `id`
EventsOf(id) == Cardinality({ j \in DOMAIN timeline : timeline[j].topicId = id })

\* The last handler was a mutating operation that took effect
MutationDone ==
    /\ lastOp.op \in { "addTopic", "incrementTopic", "clearData", "resetTopics" }
    /\ lastOp.done

\* The text is empty or consists only of whitespace
IsBlank(s) == \A i \in DOMAIN s : s[i] \in { " ", "\t" }

\* Exactly the two default topics, uncounted
DefaultTopicsOnly ==
    /\ Len(topics) = 2
    /\ topics[1].name = STR_PASS /\ topics[1].color = DEFAULT_COLORS[1] /\ topics[1].count = 0
    /\ topics[2].name = STR_FAIL /\ topics[2].color = DEFAULT_COLORS[2] /\ topics[2].count = 0

----------------------------------------------------------------------------
(* C1 *)

\* C1: in every state reachable from an empty store, every topic's count
\* equals the number of timeline events whose topicId is that topic's id.
Thm_C1_CountMatchesEvents ==
    \A i \in DOMAIN topics : topics[i].count = EventsOf(topics[i].id)

\* Two different topics have each been incremented, after an earlier clear or
\* reset had emptied a full log (the alert it raised is still up).
Wit_C1_TwoTopicsCounted ==
    /\ lastOp.op = "incrementTopic" /\ lastOp.done
    /\ capacityReachedAlert
    /\ \E i, j \in DOMAIN topics : i # j /\ topics[i].count = 1 /\ topics[j].count = 1

----------------------------------------------------------------------------
(* C2 *)

\* C2: the timeline never holds more than MAX_EVENTS entries, and an
\* incrementTopic call made while it holds exactly MAX_EVENTS leaves every
\* topic, the timeline and the slot unchanged and sets capacityReachedAlert.
Thm_C2_CapacityBound ==
    [][ /\ Len(timeline) <= MAX_EVENTS
        /\ Len(timeline') <= MAX_EVENTS
        /\ (lastOp'.op = "incrementTopic" /\ Len(timeline) = MAX_EVENTS)
              => /\ topics' = topics
                 /\ timeline' = timeline
                 /\ storage' = storage
                 /\ capacityReachedAlert' = TRUE ]_vars

\* An increment was refused on a full log after the alert had been dismissed
\* or had timed out: the refusal raised it again.
Wit_C2_Rejected ==
    /\ lastOp.op = "incrementTopic" /\ ~lastOp.done
    /\ Len(timeline) = MAX_EVENTS
    /\ capacityReachedAlert
    /\ Len(timers) = 2

----------------------------------------------------------------------------
(* C3 *)

\* C3: a confirmed resetTopics yields exactly the topics "Pass" and "Fail", in
\* that order, with DEFAULT_COLORS[0] and DEFAULT_COLORS[1] and count 0, an
\* empty timeline, and colorIndex 0.
Thm_C3_ResetYieldsDefaults ==
    (lastOp.op = "resetTopics" /\ lastOp.answer)
        => /\ DefaultTopicsOnly
           /\ timeline = << >>
           /\ colorIndex = 0

\* A reset was confirmed after the log had been full (the alert is still up).
Wit_C3_ResetAfterFullLog ==
    /\ lastOp.op = "resetTopics" /\ lastOp.answer
    /\ capacityReachedAlert
    /\ timers # << >>

----------------------------------------------------------------------------
(* C4 *)

\* C4: after every mutating operation, a startup against the slot it wrote
\* (loadFromStorage, then ngOnInit's colour re-pin) reproduces the topic list
\* and the timeline, in order and in every field.
Thm_C4_RoundTrip ==
    MutationDone
        => LET started == NgOnInitLoad(storage, << >>, << >>)
           IN  /\ started.topics = topics
               /\ started.timeline = timeline

\* A second topic named "Pass" was added to a list whose topics have counts.
Wit_C4_SecondPassAdded ==
    /\ lastOp.op = "addTopic" /\ lastOp.done
    /\ Len(topics) = 3 /\ topics[3].name = STR_PASS
    /\ Len(timeline) = 2
    /\ topics[2].count = 1

----------------------------------------------------------------------------
(* C5 *)

\* C5: the colour given to a newly added user topic is never
\* DEFAULT_COLORS[0] nor DEFAULT_COLORS[1], however many topics were added.
Cex_C5_NeverReservedColour ==
    (lastOp.op = "addTopic" /\ lastOp.done)
        => topics[Len(topics)].color \notin { DEFAULT_COLORS[1], DEFAULT_COLORS[2] }

----------------------------------------------------------------------------
(* C6 *)

\* C6: when the user declines the confirmation, clearData and resetTopics
\* leave the topics, the timeline, colorIndex, the slot and both chart
\* projections unchanged.
Thm_C6_DeclineChangesNothing ==
    [][ (lastOp'.op \in { "clearData", "resetTopics" } /\ ~lastOp'.answer)
            => UNCHANGED << topics, timeline, colorIndex, storage,
                            pieChartData, lineChartData >> ]_vars

\* A clear or a reset was declined with a user topic, events and counts present.
Wit_C6_DeclinedWithData ==
    /\ lastOp.op \in { "clearData", "resetTopics" } /\ ~lastOp.answer
    /\ Len(topics) = 3
    /\ Len(timeline) = 2
    /\ colorIndex = 1

----------------------------------------------------------------------------
(* C7 *)

\* C7: addTopic with an empty or whitespace-only name never changes the
\* length of the topic list, and leaves the timeline, colorIndex and the slot
\* unchanged.
Thm_C7_BlankNameIsNoOp ==
    [][ (lastOp'.op = "addTopic" /\ IsBlank(lastOp'.name))
            => /\ Len(topics') = Len(topics)
               /\ UNCHANGED << timeline, colorIndex, storage >> ]_vars

\* addTopic ran on a whitespace-only name after a user topic had been added.
Wit_C7_WhitespaceName ==
    /\ lastOp.op = "addTopic"
    /\ lastOp.name = << " ", "\t" >>
    /\ Len(topics) = 3
    /\ timeline # << >>

----------------------------------------------------------------------------
(* C8 *)

\* C8: after every completed mutating operation the slot holds exactly the
\* current topic list and timeline.
Thm_C8_SlotIsCurrent ==
    MutationDone
        => /\ storage.kind = "json"
           /\ storage.hasTopics /\ storage.hasTimeline
           /\ [ i \in DOMAIN storage.topics |-> TopicFromJSON(storage.topics[i]) ] = topics
           /\ [ i \in DOMAIN storage.timeline |-> EventFromJSON(storage.timeline[i]) ] = timeline

\* An increment filled the log of a list with a user topic.
Wit_C8_IncrementSaved ==
    /\ lastOp.op = "incrementTopic" /\ lastOp.done
    /\ Len(timeline) = MAX_EVENTS
    /\ Len(topics) = 3 /\ topics[3].count = 1

----------------------------------------------------------------------------
(* C9 *)

\* C9: an alert raised by a rejected increment stays visible until the user
\* dismisses it (or the page is reloaded) or until ALERT_TIMEOUT_MS after the
\* rejection that raised it: no callback of an earlier rejection hides it.
Cex_C9_AlertStaysItsTimeout ==
    [][ (capacityReachedAlert /\ ~capacityReachedAlert')
            => \/ lastOp'.op \in { "dismissAlert", "constructor" }
               \/ DateNow' >= alertSince + ALERT_TIMEOUT_MS ]_vars

----------------------------------------------------------------------------
(* C10 *)

\* C10: whatever the slot holds, if the loaded topic list is empty or absent
\* then startup ends in the default state: the topics "Pass" and "Fail" with
\* DEFAULT_COLORS[0] and DEFAULT_COLORS[1] and count 0, and an empty timeline.
Cex_C10_EmptyLoadGivesDefaults ==
    (lastOp.op = "ngOnInit" /\ Len(LoadFromStorage(storage, << >>, << >>).topics) = 0)
        => /\ DefaultTopicsOnly
           /\ timeline = << >>

----------------------------------------------------------------------------
(* C11 *)

\* C11: for every 6-digit hex colour with channels r, g, b in 0..255,
\* getContrastColor returns "#000000" exactly when
\* r*299 + g*587 + b*114 > 155000 and "#FFFFFF" otherwise; "#27AE60" yields
\* "#FFFFFF" and "#F5F5F5" yields "#000000".
Thm_C11_ContrastThreshold ==
    contrast.called
        => /\ (contrast.result = "#000000")
                <=> (contrast.r * 299 + contrast.g * 587 + contrast.b * 114 > 155000)
           /\ contrast.result \in { "#000000", "#FFFFFF" }
           /\ contrast.hexColor = << "#", "2", "7", "A", "E", "6", "0" >>
                => contrast.result = "#FFFFFF"
           /\ contrast.hexColor = << "#", "F", "5", "F", "5", "F", "5" >>
                => contrast.result = "#000000"

\* A colour just above the threshold without reaching brightness 156 was
\* judged: #9C9B9B has r*299 + g*587 + b*114 = 155299.
Wit_C11_JustAboveThreshold ==
    /\ contrast.called
    /\ contrast.hexColor = << "#", "9", "C", "9", "B", "9", "B" >>
    /\ contrast.result = "#000000"

----------------------------------------------------------------------------
(* C12 *)

\* The lines of a text: the pieces its line feeds terminate
RECURSIVE Lines(_)
Lines(text) ==
    IF text = << >> THEN << >>
    ELSE IF \E i \in DOMAIN text : text[i] = "\n"
         THEN LET k == CHOOSE i \in DOMAIN text :
                           text[i] = "\n" /\ \A j \in 1..(i - 1) : text[j] # "\n"
              IN  << SubSeq(text, 1, k - 1) >> \o Lines(SubSeq(text, k + 1, Len(text)))
         ELSE << text >>

\* The text between double quotes
Quoted(text) == << "\"" >> \o text \o << "\"" >>

\* C12: in every reachable state the totals CSV is the header row followed by
\* exactly one row per topic, row i carrying the quoted name and the count of
\* the i-th topic, and the events CSV is the header row followed by exactly
\* one row per timeline event, row j carrying the quoted topicName, the
\* timestamp and the quoted isoDatestamp of the j-th event; for the single
\* topic Pass with count 3 the totals CSV is Topic,Count then "Pass",3.
Thm_C12_CsvRows ==
    LET totals == Lines(GenerateTotalsCSV(topics))
        events == Lines(GenerateEventsCSV(timeline))
    IN  /\ Len(totals) = 1 + Len(topics)
        /\ totals[1] = << "T", "o", "p", "i", "c", ",", "C", "o", "u", "n", "t" >>
        /\ \A i \in DOMAIN topics :
              totals[1 + i] = Quoted(topics[i].name) \o << "," >>
                                  \o NumberToString(topics[i].count)
        /\ Len(events) = 1 + Len(timeline)
        /\ events[1] = SubSeq(EVENTS_HEADER, 1, Len(EVENTS_HEADER) - 1)
        /\ \A j \in DOMAIN timeline :
              events[1 + j] = Quoted(timeline[j].topicName) \o << "," >>
                                  \o NumberToString(timeline[j].timestamp) \o << "," >>
                                  \o Quoted(ISOText(timeline[j].isoDatestamp))
        /\ GenerateTotalsCSV(<< [ id |-> 0, name |-> STR_PASS,
                                  color |-> DEFAULT_COLORS[1], count |-> 3 ] >>)
              = << "T", "o", "p", "i", "c", ",", "C", "o", "u", "n", "t", "\n",
                   "\"", "P", "a", "s", "s", "\"", ",", "3", "\n" >>

\* Three topics with different counts and two events of different topics,
\* the second one stamped 1970-01-01T00:00:02.500Z.
Wit_C12_ThreeTopicsTwoEvents ==
    /\ Len(topics) = 3
    /\ topics[1].count = 0 /\ topics[2].count = 1 /\ topics[3].count = 1
    /\ Len(timeline) = 2
    /\ timeline[2].timestamp = 2500
    /\ ISOText(timeline[2].isoDatestamp)
          = << "1", "9", "7", "0", "-", "0", "1", "-", "0", "1", "T",
               "0", "0", ":", "0", "0", ":", "0", "2", ".", "5", "0", "0", "Z" >>

----------------------------------------------------------------------------
(* C13 *)

\* C13: a confirmed clearData sets every topic's count to 0 and empties the
\* timeline, and leaves the topic list's length and order, every topic's id,
\* name and colour, and colorIndex unchanged.
Thm_C13_ClearKeepsTopics ==
    [][ (lastOp'.op = "clearData" /\ lastOp'.answer)
            => /\ \A i \in DOMAIN topics' : topics'[i].count = 0
               /\ timeline' = << >>
               /\ Len(topics') = Len(topics)
               /\ \A i \in DOMAIN topics :
                     /\ topics'[i].id = topics[i].id
                     /\ topics'[i].name = topics[i].name
                     /\ topics'[i].color = topics[i].color
               /\ colorIndex' = colorIndex ]_vars

\* A clear was confirmed on a list with a user topic whose log had been full
\* (colorIndex is 1 and the alert is still up).
Wit_C13_ClearedFullLog ==
    /\ lastOp.op = "clearData" /\ lastOp.answer
    /\ Len(topics) = 3
    /\ colorIndex = 1
    /\ capacityReachedAlert

----------------------------------------------------------------------------
(* C14 *)

\* C14 (as claimed): incrementTopic called with an id that matches no topic
\* leaves topics, timeline, the slot and capacityReachedAlert unchanged in
\* every reachable state.
Cex_C14_UnknownIdChangesNothing ==
    [][ (lastOp'.op = "incrementTopic" /\ lastOp'.id \notin TopicIds(topics))
            => UNCHANGED << topics, timeline, storage, capacityReachedAlert >> ]_vars

\* C14 (amended): incrementTopic called with an id that matches no topic
\* leaves topics, timeline and the slot unchanged in every reachable state,
\* and leaves capacityReachedAlert unchanged whenever the timeline holds fewer
\* than MAX_EVENTS entries.
Thm_C14_UnknownIdBelowCapacity ==
    [][ (lastOp'.op = "incrementTopic" /\ lastOp'.id \notin TopicIds(topics))
            => /\ UNCHANGED << topics, timeline, storage >>
               /\ Len(timeline) < MAX_EVENTS
                     => capacityReachedAlert' = capacityReachedAlert ]_vars

\* An id no topic has was clicked on a log with one event and room for more,
\* an alert of an earlier full log still up.
Wit_C14_UnknownIdClicked ==
    /\ lastOp.op = "incrementTopic"
    /\ lastOp.id \notin TopicIds(topics)
    /\ Len(timeline) = 1
    /\ Len(timeline) < MAX_EVENTS
    /\ capacityReachedAlert

----------------------------------------------------------------------------
(* C15 *)

\* C15: after startup and after every operation the pie chart's labels, data
\* and backgroundColor each have as many entries as there are topics, and
\* entry i (counted from 0) of all three is the current name, count and colour
\* of the topic at position n-1-i of the topic list.
Thm_C15_PieInSync ==
    LET n == Len(topics)
    IN  /\ Len(pieChartData.labels) = n
        /\ Len(pieChartData.data) = n
        /\ Len(pieChartData.backgroundColor) = n
        /\ \A i \in 0..(n - 1) :
              /\ pieChartData.labels[i + 1] = topics[(n - 1 - i) + 1].name
              /\ pieChartData.data[i + 1] = topics[(n - 1 - i) + 1].count
              /\ pieChartData.backgroundColor[i + 1] = topics[(n - 1 - i) + 1].color

\* A rejected increment on a list of three topics with different counts, whose
\* first topic was loaded with another colour and re-pinned at startup.
Wit_C15_RejectedOnThree ==
    /\ lastOp.op = "incrementTopic" /\ ~lastOp.done
    /\ Len(timeline) = MAX_EVENTS
    /\ Len(topics) = 3
    /\ topics[1].count = 2 /\ topics[3].count = 0
    /\ topics[3].color = "#123456"
    /\ pieChartData.data = << 0, 0, 2 >>

----------------------------------------------------------------------------
(* C16 *)

\* The event log an operation finds: the component's timeline, and between
\* the construction of the component and ngOnInit the timeline the slot holds
\* (the one ngOnInit is about to load)
Log ==
    IF phase = "running" THEN timeline
    ELSE LoadFromStorage(storage, << >>, << >>).timeline

\* C16: every operation either leaves the timeline unchanged, or appends
\* exactly one event at its end (all earlier events kept in their order, the
\* new timestamp not smaller than the previous last one), or empties it
\* completely.
Thm_C16_AppendOnly ==
    [][ \/ Log' = Log
        \/ /\ Len(Log') = Len(Log) + 1
           /\ SubSeq(Log', 1, Len(Log)) = Log
           /\ Log # << >> => Log'[Len(Log')].timestamp >= Log[Len(Log)].timestamp
        \/ Log' = << >> ]_vars

\* An increment appended a second event of another topic, later than the first.
Wit_C16_AppendedLater ==
    /\ lastOp.op = "incrementTopic" /\ lastOp.done
    /\ Len(timeline) = 2
    /\ timeline[2].topicId # timeline[1].topicId
    /\ timeline[2].timestamp > timeline[1].timestamp

----------------------------------------------------------------------------
(* C17 *)

\* C17: whenever capacityReachedAlert is true it becomes false again without
\* any user action, given that every scheduled callback fires; while the
\* alert is up no more than ALERT_TIMEOUT_MS have passed since the most recent
\* rejected increment; and no callback ever sets the alert to true.
Thm_C17_AlertClearsItself ==
    /\ capacityReachedAlert ~> ~capacityReachedAlert
    /\ [](capacityReachedAlert => DateNow <= alertSince + ALERT_TIMEOUT_MS)
    /\ [][lastOp'.op = "alertTimeout" => ~capacityReachedAlert']_vars

\* The callback of a first rejection has run and hidden the alert while the
\* callback of a second rejection is still pending.
Wit_C17_TimedOutTwiceRaised ==
    /\ lastOp.op = "alertTimeout"
    /\ ~capacityReachedAlert
    /\ DateNow = ALERT_TIMEOUT_MS
    /\ Len(timers) = 1

----------------------------------------------------------------------------
(* C18 *)

\* The topic list loadFromStorage reads from the slot
LoadedTopics == LoadFromStorage(storage, << >>, << >>).topics

\* No topic before position i of the loaded list is named `name`
IsFirstNamed(i, name) ==
    /\ LoadedTopics[i].name = name
    /\ \A j \in 1..(i - 1) : LoadedTopics[j].name # name

\* C18: on startup with a non-empty loaded topic list, only the first topic
\* named exactly "Pass" gets DEFAULT_COLORS[0] and only the first topic named
\* exactly "Fail" gets DEFAULT_COLORS[1]; every other topic keeps its loaded
\* colour, and every topic's id, name, count and position equal the loaded
\* values.
Thm_C18_OnlyFirstRePinned ==
    (lastOp.op = "ngOnInit" /\ Len(LoadedTopics) > 0)
        => /\ Len(topics) = Len(LoadedTopics)
           /\ \A i \in DOMAIN LoadedTopics :
                 /\ topics[i].id = LoadedTopics[i].id
                 /\ topics[i].name = LoadedTopics[i].name
                 /\ topics[i].count = LoadedTopics[i].count
                 /\ topics[i].color =
                       IF IsFirstNamed(i, STR_PASS) THEN DEFAULT_COLORS[1]
                       ELSE IF IsFirstNamed(i, STR_FAIL) THEN DEFAULT_COLORS[2]
                       ELSE LoadedTopics[i].color

\* Startup over a slot whose first "Pass" and "Fail" carry other colours and
\* whose third topic, a second "Pass", carries a colour of its own.
Wit_C18_SecondPassKeptColour ==
    /\ lastOp.op = "ngOnInit"
    /\ Len(LoadedTopics) = 3
    /\ LoadedTopics[1].color = "#000000" /\ topics[1].color = DEFAULT_COLORS[1]
    /\ LoadedTopics[2].color = "#FFFFFF" /\ topics[2].color = DEFAULT_COLORS[2]
    /\ topics[3].name = STR_PASS /\ topics[3].color = "#123456"

----------------------------------------------------------------------------
(* C19 *)

\* C19: in every state reachable from an empty store by any sequence of
\* startup, addTopic, incrementTopic, clearData, resetTopics and reload, the
\* topic at position i (counted from 0) of the topic list has colour
\* DEFAULT_COLORS[i mod 12]: palette cycling continues across reloads.
Cex_C19_ColourFollowsPosition ==
    \A i \in 0..(Len(topics) - 1) :
        topics[i + 1].color = DefaultColor(i % Len(DEFAULT_COLORS))

----------------------------------------------------------------------------
(* C20 *)

\* The positions of the topics whose id is `id`
TopicsWithId(id) == { i \in DOMAIN topics : topics[i].id = id }

\* C20: in every state reachable from an empty store, every timeline event's
\* topicId is the id of exactly one topic of the topic list and the event's
\* topicName is that topic's current name, so that the sequence view shows the
\* first letter of that name and that topic's colour, never its fallback
\* label 'E' or its fallback colour '#999999'.
Thm_C20_EventsHaveTheirTopic ==
    /\ Len(lineChartData.labels) = Len(timeline)
    /\ Len(lineChartData.backgroundColor) = Len(timeline)
    /\ \A j \in DOMAIN timeline :
          /\ Cardinality(TopicsWithId(timeline[j].topicId)) = 1
          /\ \A i \in TopicsWithId(timeline[j].topicId) :
                /\ timeline[j].topicName = topics[i].name
                /\ topics[i].name # << >>
                /\ lineChartData.labels[j] = topics[i].name[1]
                /\ lineChartData.backgroundColor[j] = topics[i].color
                /\ lineChartData.backgroundColor[j] # "#999999"

\* Startup after a reload loaded two events, the first of a user topic and the
\* second of a default topic.
Wit_C20_ReloadedWithEvents ==
    /\ lastOp.op = "ngOnInit"
    /\ Len(topics) = 3
    /\ Len(timeline) = 2
    /\ timeline[1].topicId = topics[3].id
    /\ timeline[2].topicId = topics[1].id

====
